---- MODULE Spec2Model ----
(***************************************************************************)
(* SecurePasswordGenerator (src/password_generator.py): generate_password, *)
(* _has_predictable_patterns and generate_multiple_passwords.              *)
(*                                                                         *)
(* A character is its code point (ord), a string is a sequence of code     *)
(* points.  secrets.choice and SystemRandom().shuffle are nondeterministic *)
(* choices; in a run the random source produces the first `draws' symbols  *)
(* of each character class (MaxDraw for a direct generate_password call,   *)
(* BatchDraw inside generate_multiple_passwords, whose state holds the     *)
(* product of the passwords of the batch).                                 *)
(***************************************************************************)
EXTENDS Integers, Sequences, FiniteSets

VARIABLES
    length,          \* generate_password argument
    use_uppercase,   \* generate_password argument
    use_lowercase,   \* generate_password argument
    use_digits,      \* generate_password argument
    use_special,     \* generate_password argument
    password,        \* the list of symbols of the current attempt (line 72)
    final_password,  \* the candidate of the current attempt (line 82)
    pc,              \* position of generate_password
    result,          \* value returned by generate_password
    error,           \* ValueError raised ("none" when no error)
    retried,         \* history: a candidate of this call was rejected
    count,           \* generate_multiple_passwords argument
    passwords,       \* generate_multiple_passwords local list (line 135)
    bpc,             \* position of generate_multiple_passwords
    batch,           \* value returned by generate_multiple_passwords
    flagged,         \* value returned by a direct _has_predictable_patterns call
    draws            \* symbols of each class the random source produces

vars == <<length, use_uppercase, use_lowercase, use_digits, use_special,
          password, final_password, pc, result, error, retried,
          count, passwords, bpc, batch, flagged, draws>>

----------------------------------------------------------------------------
(* Bounds of the model *)

MaxLength == 4
MaxCount == 2
MaxDraw == 2
BatchDraw == 1
MaxPatLen == 4

(* Program constants *)

\* variant of MinLength: length < 3
min_length_off_by_one == 4 - 1

\* line 45: length < 4
MinLength == 4

\* variant of MinCount: count < 0
min_count_off_by_one == 1 - 1

\* line 132: count < 1
MinCount == 1

----------------------------------------------------------------------------
(* Character sets, __init__ *)

lowercase == [i \in 1..26 |-> 96 + i]

uppercase == [i \in 1..26 |-> 64 + i]

digits == [i \in 1..10 |-> 47 + i]

\* "!@#$%^&*()_+-=[]{}|;:,.<>?"
special_chars == <<33, 64, 35, 36, 37, 94, 38, 42, 40, 41, 95, 43, 45, 61,
                   91, 93, 123, 125, 124, 59, 58, 44, 46, 60, 62, 63>>

Range(s) == {s[i] : i \in DOMAIN s}

Prefix(s, n) == {s[i] : i \in 1..(IF n < Len(s) THEN n ELSE Len(s))}

\* The symbols the random source produces in this run.
Drawable ==
    Prefix(lowercase, draws) \cup Prefix(uppercase, draws)
        \cup Prefix(digits, draws) \cup Prefix(special_chars, draws)

\* secrets.choice(seq): any element of seq.
choice(seq) == Range(seq) \cap Drawable

----------------------------------------------------------------------------
(* _has_predictable_patterns *)

\* lines 103-106: three consecutive symbols with ascending consecutive codes
sequential_chars(pwd) ==
    \E i \in 1..(Len(pwd) - 2) :
        /\ pwd[i + 1] = pwd[i] + 1
        /\ pwd[i + 2] = pwd[i] + 2

\* variant of repeated_chars: r'(.)\1{3,}', four or more in a row
repeated_chars_four(pwd) ==
    \E i \in 1..(Len(pwd) - 3) :
        /\ pwd[i] # 10
        /\ pwd[i + 1] = pwd[i]
        /\ pwd[i + 2] = pwd[i]
        /\ pwd[i + 3] = pwd[i]

\* line 109: re.search(r'(.)\1{2,}', password); '.' matches any character
\* except a newline (code 10).
repeated_chars(pwd) ==
    \E i \in 1..(Len(pwd) - 2) :
        /\ pwd[i] # 10
        /\ pwd[i + 1] = pwd[i]
        /\ pwd[i + 2] = pwd[i]

\* line 113: ['123', '321', 'abc', 'cba', 'qwe', 'asd', 'zxc']
common_patterns ==
    << <<49, 50, 51>>, <<51, 50, 49>>, <<97, 98, 99>>, <<99, 98, 97>>,
       <<113, 119, 101>>, <<97, 115, 100>>, <<122, 120, 99>> >>

\* str.lower() on the ASCII range
lower(pwd) ==
    [i \in DOMAIN pwd |->
        IF pwd[i] >= 65 /\ pwd[i] <= 90
        THEN pwd[i] + 32 ELSE pwd[i]]

\* pattern in s
contains(s, pattern) ==
    \E i \in 0..(Len(s) - Len(pattern)) :
        SubSeq(s, i + 1, i + Len(pattern)) = pattern

\* lines 114-117
common_pattern_found(pwd) ==
    \E k \in DOMAIN common_patterns :
        contains(lower(pwd), common_patterns[k])

has_predictable_patterns(pwd) ==
    \/ sequential_chars(pwd)
    \/ repeated_chars(pwd)
    \/ common_pattern_found(pwd)

----------------------------------------------------------------------------
(* generate_password: sampling *)

\* variant of char_pool: use_digits adds special_chars to the pool
char_pool_wrong_set ==
    (IF use_lowercase THEN lowercase ELSE <<>>)
        \o (IF use_uppercase THEN uppercase ELSE <<>>)
        \o (IF use_digits THEN special_chars ELSE <<>>)
        \o (IF use_special THEN special_chars ELSE <<>>)

\* lines 49-66, char_pool
char_pool ==
    (IF use_lowercase THEN lowercase ELSE <<>>)
        \o (IF use_uppercase THEN uppercase ELSE <<>>)
        \o (IF use_digits THEN digits ELSE <<>>)
        \o (IF use_special THEN special_chars ELSE <<>>)

\* one required_chars.append(secrets.choice(alphabet)) under its flag
required_of(flag, alphabet) ==
    IF flag THEN {<<c>> : c \in choice(alphabet)} ELSE {<<>>}

\* lines 50-66, the values required_chars can take
required_chars ==
    {a \o b \o c \o d :
        a \in required_of(use_lowercase, lowercase),
        b \in required_of(use_uppercase, uppercase),
        c \in required_of(use_digits, digits),
        d \in required_of(use_special, special_chars)}

\* variant of fill_count: range(length - len(required_chars) + 1)
fill_count_one_more(required) ==
    IF length - Len(required) + 1 > 0 THEN length - Len(required) + 1 ELSE 0

\* line 75: range(length - len(required_chars)) is empty when negative
fill_count(required) ==
    IF length - Len(required) > 0 THEN length - Len(required) ELSE 0

\* variant of filled: password = [] and length draws from the pool
filled_pool_only(required) ==
    {f : f \in [1..length -> choice(char_pool)]}

\* variant of filled: the fill loop draws from required_chars
filled_from_required(required) ==
    {required \o f : f \in [1..fill_count(required) -> Range(required)]}

\* lines 72-76: password = required_chars.copy() plus the pool draws
filled(required) ==
    {required \o f : f \in [1..fill_count(required) -> choice(char_pool)]}

\* the orders the positions 1..n can be put in
RECURSIVE Orders(_)
Orders(n) ==
    IF n = 0 THEN {<<>>}
    ELSE UNION {{SubSeq(o, 1, k - 1) \o <<n>> \o SubSeq(o, k, n - 1) :
                    k \in 1..n} : o \in Orders(n - 1)}

\* the orders of the positions of a list, by the length of the list
PositionOrders == [n \in 0..(MaxLength + 1) |-> Orders(n)]

\* line 79: secrets.SystemRandom().shuffle(password) leaves the list in any
\* order of its positions.
shuffle(pwd) ==
    {[i \in 1..Len(pwd) |-> pwd[o[i]]] : o \in PositionOrders[Len(pwd)]}

\* lines 87-88: the arguments of the recursive call, in the order of the
\* signature (length, use_uppercase, use_lowercase, use_digits, use_special)
retry_args == <<length, use_uppercase, use_lowercase, use_digits, use_special>>

\* lines 49-82: every final_password one attempt can build
candidates ==
    UNION {shuffle(p) : p \in UNION {filled(r) : r \in required_chars}}

----------------------------------------------------------------------------
(* generate_password: control *)

\* the values of the length argument
Lengths == 0..MaxLength

genUnchanged == <<count, passwords, bpc, batch, flagged, draws>>

\* lines 45-46
GenRaiseLength ==
    /\ pc = "call"
    /\ length < MinLength
    /\ pc' = "raised"
    /\ error' = "length"
    /\ UNCHANGED <<length, use_uppercase, use_lowercase, use_digits,
                   use_special, password, final_password, result, retried>>
    /\ UNCHANGED genUnchanged

\* lines 68-69
GenRaiseNoPool ==
    /\ pc = "call"
    /\ ~(length < MinLength)
    /\ Len(char_pool) = 0
    /\ pc' = "raised"
    /\ error' = "no character type"
    /\ UNCHANGED <<length, use_uppercase, use_lowercase, use_digits,
                   use_special, password, final_password, result, retried>>
    /\ UNCHANGED genUnchanged

\* lines 49-76: the required draws and the pool draws of one attempt
GenSample ==
    /\ pc = "call"
    /\ ~(length < MinLength)
    /\ Len(char_pool) # 0
    /\ \E required \in required_chars :
          \E drawn \in filled(required) :
             password' = drawn
    /\ pc' = "shuffle"
    /\ UNCHANGED <<length, use_uppercase, use_lowercase, use_digits,
                   use_special, final_password, result, error, retried>>
    /\ UNCHANGED genUnchanged

\* lines 79-82: the shuffle in place and ''.join(password)
GenShuffle ==
    /\ pc = "shuffle"
    /\ \E shuffled \in shuffle(password) :
          /\ password' = shuffled
          /\ final_password' = shuffled
    /\ pc' = "check"
    /\ UNCHANGED <<length, use_uppercase, use_lowercase, use_digits,
                   use_special, result, error, retried>>
    /\ UNCHANGED genUnchanged

\* lines 85-88: the candidate is flagged, generate_password calls itself
GenRetry ==
    /\ pc = "check"
    /\ has_predictable_patterns(final_password)
    /\ length' = retry_args[1]
    /\ use_uppercase' = retry_args[2]
    /\ use_lowercase' = retry_args[3]
    /\ use_digits' = retry_args[4]
    /\ use_special' = retry_args[5]
    /\ password' = <<>>
    /\ final_password' = <<>>
    /\ retried' = TRUE
    /\ pc' = "call"
    /\ UNCHANGED <<result, error>>
    /\ UNCHANGED genUnchanged

\* line 90
GenReturn ==
    /\ pc = "check"
    /\ ~has_predictable_patterns(final_password)
    /\ result' = final_password
    /\ pc' = "returned"
    /\ UNCHANGED <<length, use_uppercase, use_lowercase, use_digits,
                   use_special, password, final_password, error, retried>>
    /\ UNCHANGED genUnchanged

\* A caller invokes generate_password(length, use_uppercase, ...).
Init ==
    /\ length \in Lengths
    /\ use_uppercase \in BOOLEAN
    /\ use_lowercase \in BOOLEAN
    /\ use_digits \in BOOLEAN
    /\ use_special \in BOOLEAN
    /\ password = <<>>
    /\ final_password = <<>>
    /\ pc = "call"
    /\ result = <<>>
    /\ error = "none"
    /\ retried = FALSE
    /\ count = 0
    /\ passwords = <<>>
    /\ bpc = "none"
    /\ batch = <<>>
    /\ flagged = FALSE
    /\ draws = MaxDraw

Next ==
    \/ GenRaiseLength
    \/ GenRaiseNoPool
    \/ GenSample
    \/ GenShuffle
    \/ GenRetry
    \/ GenReturn

Spec == Init /\ [][Next]_vars

----------------------------------------------------------------------------
(* generate_multiple_passwords *)

\* variant of iterations: range(count - 1)
iterations_one_short == count - 1

\* line 136: range(count)
iterations == count

\* the values of the count argument
Counts == (-1)..MaxCount

batchArgs == <<length, use_uppercase, use_lowercase, use_digits, use_special>>

\* lines 132-133
BatchRaiseCount ==
    /\ bpc = "start"
    /\ count < MinCount
    /\ bpc' = "raised"
    /\ error' = "count"
    /\ UNCHANGED <<password, final_password, pc, result, retried, count,
                   passwords, batch, flagged, draws>>
    /\ UNCHANGED batchArgs

\* line 135
BatchStart ==
    /\ bpc = "start"
    /\ ~(count < MinCount)
    /\ passwords' = <<>>
    /\ bpc' = "loop"
    /\ UNCHANGED <<password, final_password, pc, result, error, retried, count,
                   batch, flagged, draws>>
    /\ UNCHANGED batchArgs

\* lines 136-137: the next iteration calls generate_password(**kwargs)
BatchCall ==
    /\ bpc = "loop"
    /\ pc = "idle"
    /\ Len(passwords) < iterations
    /\ pc' = "call"
    /\ retried' = FALSE
    /\ UNCHANGED <<password, final_password, result, error, count,
                   passwords, bpc, batch, flagged, draws>>
    /\ UNCHANGED batchArgs

\* line 137: passwords.append(<returned password>)
BatchAppend ==
    /\ bpc = "loop"
    /\ pc = "returned"
    /\ passwords' = Append(passwords, result)
    /\ pc' = "idle"
    /\ result' = <<>>
    /\ password' = <<>>
    /\ final_password' = <<>>
    /\ UNCHANGED <<error, retried, count, bpc, batch, flagged, draws>>
    /\ UNCHANGED batchArgs

\* line 137: a ValueError of generate_password leaves the loop and the call
BatchPropagate ==
    /\ bpc = "loop"
    /\ pc = "raised"
    /\ bpc' = "raised"
    /\ pc' = "idle"
    /\ UNCHANGED <<password, final_password, result, error, retried, count,
                   passwords, batch, flagged, draws>>
    /\ UNCHANGED batchArgs

\* line 139
BatchReturn ==
    /\ bpc = "loop"
    /\ pc = "idle"
    /\ ~(Len(passwords) < iterations)
    /\ batch' = passwords
    /\ bpc' = "returned"
    /\ UNCHANGED <<password, final_password, pc, result, error, retried, count,
                   passwords, flagged, draws>>
    /\ UNCHANGED batchArgs

\* A caller invokes generate_multiple_passwords(count, length=..., use_...=...).
BatchInit ==
    /\ length \in Lengths
    /\ use_uppercase \in BOOLEAN
    /\ use_lowercase \in BOOLEAN
    /\ use_digits \in BOOLEAN
    /\ use_special \in BOOLEAN
    /\ count \in Counts
    /\ password = <<>>
    /\ final_password = <<>>
    /\ pc = "idle"
    /\ result = <<>>
    /\ error = "none"
    /\ retried = FALSE
    /\ passwords = <<>>
    /\ bpc = "start"
    /\ batch = <<>>
    /\ flagged = FALSE
    /\ draws = BatchDraw

BatchNext ==
    \/ BatchRaiseCount
    \/ BatchStart
    \/ BatchCall
    \/ GenRaiseLength
    \/ GenRaiseNoPool
    \/ GenSample
    \/ GenShuffle
    \/ GenRetry
    \/ GenReturn
    \/ BatchAppend
    \/ BatchPropagate
    \/ BatchReturn

BatchSpec == BatchInit /\ [][BatchNext]_vars

----------------------------------------------------------------------------
(* A direct call _has_predictable_patterns(password) *)

\* "abc123XY"
abc123XY == <<97, 98, 99, 49, 50, 51, 88, 89>>

\* "aaaZZZ11"
aaaZZZ11 == <<97, 97, 97, 90, 90, 90, 49, 49>>

\* "kP9#mQ2$"
kP9mQ2 == <<107, 80, 57, 35, 109, 81, 50, 36>>

\* newline, 1 2 3, A, a b c d e q s w x z
PatAlphabet ==
    {10, 49, 50, 51, 65, 97, 98, 99, 100, 101, 113, 115, 119, 120, 122}

PatInputs ==
    UNION {[1..n -> PatAlphabet] : n \in 0..MaxPatLen}
        \cup {abc123XY, aaaZZZ11, kP9mQ2}

\* lines 92-119, called with final_password as its argument
PatCheck ==
    /\ pc = "pattern_call"
    /\ flagged' = has_predictable_patterns(final_password)
    /\ pc' = "pattern_done"
    /\ UNCHANGED <<length, use_uppercase, use_lowercase, use_digits,
                   use_special, password, final_password, result, error,
                   retried, count, passwords, bpc, batch, draws>>

PatInit ==
    /\ final_password \in PatInputs
    /\ password = <<>>
    /\ pc = "pattern_call"
    /\ flagged = FALSE
    /\ length = 0
    /\ use_uppercase = FALSE
    /\ use_lowercase = FALSE
    /\ use_digits = FALSE
    /\ use_special = FALSE
    /\ result = <<>>
    /\ error = "none"
    /\ retried = FALSE
    /\ count = 0
    /\ passwords = <<>>
    /\ bpc = "none"
    /\ batch = <<>>
    /\ draws = 0

PatNext == PatCheck

PatSpec == PatInit /\ [][PatNext]_vars

----------------------------------------------------------------------------
(* Specifications with fairness *)

\* generate_password runs on one thread that keeps taking its next step.
FairSpec == Init /\ [][Next]_vars /\ WF_vars(Next)

\* Draws that a shuffle can turn into a candidate the pattern check passes.
PassableSample ==
    /\ GenSample
    /\ \E shuffled \in shuffle(password') :
          ~has_predictable_patterns(shuffled)

\* A shuffle whose candidate passes the pattern check.
PassingShuffle ==
    /\ GenShuffle
    /\ ~has_predictable_patterns(final_password')

\* Fair random draws: secrets.choice and shuffle give every outcome a positive
\* probability at every attempt, so an outcome that stays possible is drawn in
\* the end.
LiveSpec ==
    /\ Init
    /\ [][Next]_vars
    /\ WF_vars(Next)
    /\ SF_vars(PassableSample)
    /\ SF_vars(PassingShuffle)

----------------------------------------------------------------------------
(* The properties *)

ValidRequest ==
    /\ length >= 4
    /\ (use_lowercase \/ use_uppercase \/ use_digits \/ use_special)

HasSymbolOf(pwd, alphabet) ==
    \E i \in DOMAIN pwd : pwd[i] \in Range(alphabet)

EveryClassIn(pwd) ==
    /\ use_lowercase => HasSymbolOf(pwd, lowercase)
    /\ use_uppercase => HasSymbolOf(pwd, uppercase)
    /\ use_digits => HasSymbolOf(pwd, digits)
    /\ use_special => HasSymbolOf(pwd, special_chars)

SelectedAlphabet ==
    (IF use_lowercase THEN Range(lowercase) ELSE {})
        \cup (IF use_uppercase THEN Range(uppercase) ELSE {})
        \cup (IF use_digits THEN Range(digits) ELSE {})
        \cup (IF use_special THEN Range(special_chars) ELSE {})

\* The three rules of the pattern check as the specification words them.
AscendingRun(p) ==
    \E i \in 1..(Len(p) - 2) : p[i + 1] = p[i] + 1 /\ p[i + 2] = p[i] + 2

RepeatedRun(p) ==
    \E i \in 1..(Len(p) - 2) : p[i + 1] = p[i] /\ p[i + 2] = p[i]

Denylist ==
    { <<49, 50, 51>>, <<51, 50, 49>>, <<97, 98, 99>>, <<99, 98, 97>>,
      <<113, 119, 101>>, <<97, 115, 100>>, <<122, 120, 99>> }

KnownSubstring(p) ==
    \E d \in Denylist :
        \E i \in 1..(Len(p) - 2) : SubSeq(lower(p), i, i + 2) = d

Predictable(p) == AscendingRun(p) \/ RepeatedRun(p) \/ KnownSubstring(p)

\* C1: whenever generate_password returns for a valid request, the password
\* has exactly the requested length, retries or not.
ReturnedLengthExact ==
    (pc = "returned" /\ ValidRequest) => Len(result) = length

ReturnedLengthExactWitness ==
    /\ pc = "returned"
    /\ ValidRequest
    /\ retried
    /\ ~use_special
    /\ ~use_digits
    /\ Len(result) = length

\* C2: the returned password holds at least one symbol of every selected
\* class, whatever the shuffle did and however many retries happened.
ReturnedHasEveryClass ==
    (pc = "returned" /\ ValidRequest) => EveryClassIn(result)

ReturnedHasEveryClassWitness ==
    /\ pc = "returned"
    /\ retried
    /\ use_lowercase
    /\ use_uppercase
    /\ EveryClassIn(result)
    /\ ~HasSymbolOf(SubSeq(result, 1, 2), lowercase)

\* C3: every symbol of a returned password belongs to the alphabet of a
\* selected class.
ReturnedOnlySelectedSymbols ==
    (pc = "returned" /\ ValidRequest) =>
        \A i \in DOMAIN result : result[i] \in SelectedAlphabet

ReturnedOnlySelectedSymbolsWitness ==
    /\ pc = "returned"
    /\ retried
    /\ use_special
    /\ use_uppercase
    /\ ~use_lowercase
    /\ ~use_digits
    /\ \A i \in DOMAIN result : result[i] \in SelectedAlphabet

\* C4: generate_password never returns a password with an ascending run, a
\* repeated run or a denylisted substring; a flagged candidate is discarded
\* and the next attempt starts under the same request parameters.
ReturnedNeverPredictable ==
    [][ /\ pc' = "returned" => ~Predictable(result')
        /\ (pc = "check" /\ Predictable(final_password)) =>
              /\ pc' = "call"
              /\ result' = <<>>
              /\ password' = <<>>
              /\ final_password' = <<>>
              /\ length' = length
              /\ use_uppercase' = use_uppercase
              /\ use_lowercase' = use_lowercase
              /\ use_digits' = use_digits
              /\ use_special' = use_special ]_vars

ReturnedNeverPredictableWitness ==
    /\ pc = "returned"
    /\ retried
    /\ use_lowercase
    /\ ~use_uppercase
    /\ ~use_digits
    /\ ~use_special
    /\ ~Predictable(result)

\* C5: generate_password raises the parameter error, and returns nothing,
\* exactly for length < 4 or no class selected; the error comes on the first
\* attempt, never after a retry, and a valid request raises no error.
ParameterErrorExactly ==
    /\ pc = "raised" =>
          /\ ~ValidRequest
          /\ ~retried
          /\ result = <<>>
          /\ password = <<>>
          /\ final_password = <<>>
          /\ error = (IF length < 4 THEN "length" ELSE "no character type")
    /\ ValidRequest => error = "none"
    /\ ~ValidRequest => pc \in {"call", "raised"}

ParameterErrorExactlyWitness ==
    /\ pc = "raised"
    /\ length >= 4
    /\ error = "no character type"

\* C6: _has_predictable_patterns(p) is true exactly when p has an ascending
\* run, a symbol three or more times in a row, or a denylisted substring in
\* its lowercase form; true for "abc123XY" and "aaaZZZ11", false for
\* "kP9#mQ2$" and for every string shorter than 3 symbols.
PatternCheckIsTheThreeRules ==
    pc = "pattern_done" =>
        /\ flagged = Predictable(final_password)
        /\ final_password \in {abc123XY, aaaZZZ11} => flagged
        /\ final_password = kP9mQ2 => ~flagged
        /\ Len(final_password) < 3 => ~flagged

\* What _has_predictable_patterns does satisfy: the three rules on every
\* string without a newline.
PatternCheckOffNewline ==
    (pc = "pattern_done" /\ 10 \notin Range(final_password)) =>
        /\ flagged = Predictable(final_password)
        /\ final_password \in {abc123XY, aaaZZZ11} => flagged
        /\ final_password = kP9mQ2 => ~flagged
        /\ Len(final_password) < 3 => ~flagged

\* C7: for count >= 1 and a valid request generate_multiple_passwords returns
\* exactly count passwords, in generation order, all under the same request
\* parameters, each of the requested length and with every selected class.
BatchOfCount ==
    /\ [](bpc = "returned" =>
            /\ Len(batch) = count
            /\ count >= 1
            /\ ValidRequest
            /\ \A k \in DOMAIN batch :
                  Len(batch[k]) = length /\ EveryClassIn(batch[k]))
    /\ [][ /\ Len(passwords') >= Len(passwords)
           /\ SubSeq(passwords', 1, Len(passwords)) = passwords
           /\ Len(passwords') > Len(passwords) =>
                 passwords' = Append(passwords, result)
           /\ bpc' = "returned" => batch' = passwords
           /\ batchArgs' = batchArgs ]_vars

BatchOfCountWitness ==
    /\ bpc = "returned"
    /\ count = 2
    /\ Len(batch) = 2
    /\ batch[1] # batch[2]

\* C8: generate_multiple_passwords raises the parameter error for every
\* count < 1 before any password is generated and returns no batch; a failure
\* of a generate_password call propagates at once, with no partial batch.
BatchErrors ==
    /\ [](count < 1 =>
            /\ pc = "idle"
            /\ passwords = <<>>
            /\ final_password = <<>>
            /\ bpc \in {"start", "raised"}
            /\ bpc = "raised" => error = "count")
    /\ [](bpc = "raised" => batch = <<>> /\ error # "none")
    /\ [](bpc = "returned" => error = "none")
    /\ [][ pc = "raised" =>
              /\ bpc' = "raised"
              /\ batch' = <<>>
              /\ passwords' = passwords
              /\ error' = error ]_vars

BatchErrorsWitness ==
    /\ bpc = "raised"
    /\ count < 1
    /\ error = "count"

\* C9: the pattern-rejection retry is capped, so every call to
\* generate_password terminates on every sequence of random draws, also when
\* every candidate is flagged.
EveryCallTerminates == <>(pc \in {"returned", "raised"})

====
